---------------------------- MODULE Spec2Model ----------------------------
(***************************************************************************)
(* Model of chat-with-your-notes: the chunked upload service and its       *)
(* controller, file ingestion, similarity retrieval and the conversation   *)
(* memory manager.                                                         *)
(***************************************************************************)
EXTENDS Integers, Sequences, FiniteSets, TLC

\* ------------------------------------------------------------------ bounds
MaxClock == 1
MaxParts == 2

\* ------------------------------------------------------------------- state
VARIABLES
  now,      \* Date.now(), in milliseconds
  dirs,     \* TEMP_DIR: chunkDirName -> [metadata, chunks: chunkIndex -> bytes]
  req,      \* uploadChunk handlers in flight: position and locals
  files,    \* prisma.file rows
  client,   \* uploadFileInChunks on the client: position and locals
  session,  \* the prisma.chatSession row of one conversation
  messages, \* its prisma.chatMessage rows, in creation order
  opt,      \* optimizeMemory calls in flight: position and locals
  clr,      \* clearConversationMemory in flight: position
  turn,     \* processQuestion in flight: position and locals
  chunkRows, \* prisma.chunk rows
  ingest,   \* processAndStoreFile in flight: position and chunk tasks
  query,    \* the retrieval step of a chat turn: position and locals
  initUp,   \* initializeChunkedUpload: the request and its response
  cancelRes, \* cancelChunkedUpload: the last request and its response
  reaper    \* cleanupOldChunks run by setInterval: position and locals

memVars == <<session, messages, opt, clr, turn>>
docVars == <<chunkRows, ingest, query>>
\* what the upload handlers never touch
houseVars == <<initUp, cancelRes, reaper>>
notUpload == <<client, memVars, docVars, houseVars>>
\* what the conversation code never touches
notMem == <<now, dirs, req, files, client, docVars, houseVars>>
\* what ingestion and retrieval never touch
notDocs == <<now, dirs, req, client, memVars, houseVars>>

vars == <<now, dirs, req, files, client, session, messages, opt, clr, turn,
          chunkRows, ingest, query, initUp, cancelRes, reaper>>

\* handler slots: two chunk requests can be in flight at once
Requests == {1, 2}
Clock == 0..MaxClock
Devices == {"d1", "d2"}
\* raw file names as character sequences; "a b" and "a_b" sanitize alike
FileNames == {<<"a", " ">>, <<"a", "_">>}
SafeChars == {"a", "b", ".", "-", "0"}
\* chunk contents: two distinguishable payloads
Bytes == {1, 2}
NoDir == <<>>

\* fileName.replace(/[^a-zA-Z0-9.-]/g, '_')
Sanitize(fileName) ==
  [i \in DOMAIN fileName |-> IF fileName[i] \in SafeChars THEN fileName[i] ELSE "_"]

\* `${sanitizedFileName}_${deviceId}_${timestamp}` with timestamp = Date.now()
generateChunkDirName(fileName, deviceId, t) ==
  <<Sanitize(fileName), deviceId, t>>

ChunkMetadata ==
  [fileName: FileNames, chunkIndex: Int, totalChunks: Int, deviceId: Devices]

\* storeChunk: mkdir if absent, overwrite metadata.json, write chunk_<index>
storeChunk(ds, chunk, metadata, t) ==
  LET d == generateChunkDirName(metadata.fileName, metadata.deviceId, t)
      old == IF d \in DOMAIN ds THEN ds[d].chunks ELSE <<>>
      new == [i \in (DOMAIN old) \cup {metadata.chunkIndex} |->
                IF i = metadata.chunkIndex THEN chunk ELSE old[i]]
  IN  [x \in (DOMAIN ds) \cup {d} |->
         IF x = d THEN [metadata |-> metadata, chunks |-> new] ELSE ds[x]]

\* the loop of areAllChunksUploaded from index i on: false at the first index
\* whose chunk file is missing
ChunksExistFrom(chunks, i, total) ==
  \A j \in i..(total - 1) : j \in DOMAIN chunks

\* mutant: the loop starts at index 1
areAllChunksUploaded_SkipFirst(ds, d) ==
  IF d \notin DOMAIN ds THEN FALSE
  ELSE ChunksExistFrom(ds[d].chunks, 1, ds[d].metadata.totalChunks)

\* areAllChunksUploaded: false when metadata.json cannot be read
areAllChunksUploaded(ds, d) ==
  IF d \notin DOMAIN ds THEN FALSE
  ELSE ChunksExistFrom(ds[d].chunks, 0, ds[d].metadata.totalChunks)

\* Math.round((uploaded / total) * 100)
Percentage(uploaded, total) == ((200 * uploaded) + total) \div (2 * total)

\* getUploadProgress
getUploadProgress(ds, d) ==
  IF d \notin DOMAIN ds THEN [uploaded |-> 0, total |-> 0, percentage |-> 0]
  ELSE LET total == ds[d].metadata.totalChunks
           up == Cardinality({i \in 0..(total - 1) : i \in DOMAIN ds[d].chunks})
       IN  [uploaded |-> up, total |-> total, percentage |-> Percentage(up, total)]

\* cleanupChunks: fs.rm(dir, {recursive, force})
cleanupChunks(ds, d) == [x \in (DOMAIN ds) \ {d} |-> ds[x]]

NoMeta == [fileName |-> <<>>, chunkIndex |-> 0, totalChunks |-> 0, deviceId |-> ""]
NoProgress == [uploaded |-> 0, total |-> 0, percentage |-> 0]

\* a handler slot: pc is the await it is parked at; dir..out are its locals;
\* status..fileId are the response it sent, fields the keys its body holds
IdleReq ==
  [pc |-> "idle", meta |-> NoMeta, dir |-> NoDir, i |-> 0, total |-> 0, out |-> <<>>,
   status |-> 0, fields |-> {}, completed |-> FALSE, progress |-> NoProgress,
   fileId |-> 0]

MergePhase == {"mergeStart", "merge", "process", "cleanup", "fail"}
InFlight == {r \in Requests : req[r].pc \notin {"idle", "done"}}

ClientOff == client = [pc |-> "off"]

MemOff ==
  /\ session = [pc |-> "off"]
  /\ messages = <<>>
  /\ opt = <<>>
  /\ clr = "off"
  /\ turn = [pc |-> "off"]

HouseOff ==
  /\ initUp = [pc |-> "off"]
  /\ cancelRes = [pc |-> "off"]
  /\ reaper = [pc |-> "off"]

DocsOff ==
  /\ chunkRows = {}
  /\ ingest = [pc |-> "off"]
  /\ query = [pc |-> "off"]

UploadInit ==
  /\ ClientOff
  /\ MemOff
  /\ DocsOff
  /\ HouseOff
  /\ now = 0
  /\ dirs = <<>>
  /\ req = [r \in Requests |-> IdleReq]
  /\ files = {}

Tick ==
  /\ now < MaxClock
  /\ now' = now + 1
  /\ UNCHANGED <<dirs, req, files, notUpload>>

\* uploadChunk up to and including `await storeChunk(...)`: validation, then the store.
\* A rejected request is rethrown by the outer catch as ApiError(500).
uploadChunkStore(r, fileName, deviceId, chunkIndex, totalChunks, chunk) ==
  LET metadata == [fileName |-> fileName, chunkIndex |-> chunkIndex,
                   totalChunks |-> totalChunks, deviceId |-> deviceId]
  IN  /\ req[r].pc = "idle"
      /\ IF chunkIndex < 0 \/ chunkIndex >= totalChunks
         THEN /\ req' = [req EXCEPT ![r] = [IdleReq EXCEPT !.pc = "done", !.status = 500]]
              /\ dirs' = dirs
         ELSE /\ dirs' = storeChunk(dirs, chunk, metadata, now)
              /\ req' = [req EXCEPT ![r] =
                          [IdleReq EXCEPT !.pc = "stored", !.meta = metadata,
                             !.dir = generateChunkDirName(fileName, deviceId, now)]]

\* a chunk request with any field values a caller can send
StoreChunk(r) ==
  /\ \E fileName \in FileNames, deviceId \in Devices,
        chunkIndex \in 0..MaxParts, totalChunks \in 1..MaxParts, chunk \in Bytes :
       uploadChunkStore(r, fileName, deviceId, chunkIndex, totalChunks, chunk)
  /\ UNCHANGED <<now, files, notUpload>>

\* `await areAllChunksUploaded(chunkDirName)` and the branch on its result
CheckComplete(r) ==
  /\ req[r].pc = "stored"
  /\ req' = [req EXCEPT ![r].pc =
               IF areAllChunksUploaded(dirs, req[r].dir) THEN "mergeStart" ELSE "progress"]
  /\ UNCHANGED <<now, dirs, files, notUpload>>

\* else branch: `await getUploadProgress(chunkDirName)`, then res.status(200)
Progress(r) ==
  /\ req[r].pc = "progress"
  /\ req' = [req EXCEPT ![r] =
               [IdleReq EXCEPT !.pc = "done", !.status = 200, !.dir = req[r].dir,
                  !.fields = {"chunkDirName", "progress", "completed"},
                  !.completed = FALSE,
                  !.progress = getUploadProgress(dirs, req[r].dir)]]
  /\ UNCHANGED <<now, dirs, files, notUpload>>

\* mergeChunks: `await getChunkMetadata`, throw on null, open the write stream
MergeStart(r) ==
  /\ req[r].pc = "mergeStart"
  /\ req' = [req EXCEPT ![r] =
               IF req[r].dir \in DOMAIN dirs
               THEN [@ EXCEPT !.pc = IF dirs[req[r].dir].metadata.totalChunks > 0
                                     THEN "merge" ELSE "process",
                              !.total = dirs[req[r].dir].metadata.totalChunks,
                              !.i = 0, !.out = <<>>]
               ELSE [@ EXCEPT !.pc = "fail"]]
  /\ UNCHANGED <<now, dirs, files, notUpload>>

\* mutant: the file of the next index is read (1-based chunk names)
readChunk_OffByOne(chunks, i) == chunks[(i + 1) % Cardinality(DOMAIN chunks)]

\* fs.readFile(getChunkFilePath(chunkDirPath, i))
readChunk(chunks, i) == chunks[i]

\* mergeChunks: one turn of the loop, `await fs.readFile(chunk_i)` then write;
\* a missing chunk file throws
MergeRead(r) ==
  /\ req[r].pc = "merge"
  /\ LET d == req[r].dir
          i == req[r].i
     IN  req' = [req EXCEPT ![r] =
                  IF d \in DOMAIN dirs /\ i \in DOMAIN dirs[d].chunks
                  THEN [@ EXCEPT !.out = Append(@, readChunk(dirs[d].chunks, i)),
                                 !.i = i + 1,
                                 !.pc = IF i + 1 < req[r].total THEN "merge" ELSE "process"]
                  ELSE [@ EXCEPT !.pc = "fail"]]
  /\ UNCHANGED <<now, dirs, files, notUpload>>

\* cloudinary upload and processAndStoreFile: succeeds with a new file row, or
\* throws before or after prisma.file.create
Process(r) ==
  /\ req[r].pc = "process"
  /\ \E ok \in BOOLEAN, created \in BOOLEAN :
       /\ ok => created
       /\ LET id == Cardinality(files) + 1
          IN  /\ files' = IF created
                          THEN files \cup {[id |-> id, deviceId |-> req[r].meta.deviceId,
                                            originalName |-> req[r].meta.fileName,
                                            ok |-> ok]}
                          ELSE files
              /\ req' = [req EXCEPT ![r].pc = IF ok THEN "cleanup" ELSE "fail",
                                     ![r].fileId = IF ok THEN id ELSE 0]
  /\ UNCHANGED <<now, dirs, notUpload>>

\* `await cleanupChunks(chunkDirName)` then res.status(201): the body holds
\* fileId, filename, size and chunkDirName only
CleanupOk(r) ==
  /\ req[r].pc = "cleanup"
  /\ dirs' = cleanupChunks(dirs, req[r].dir)
  /\ req' = [req EXCEPT ![r] =
               [IdleReq EXCEPT !.pc = "done", !.status = 201, !.dir = req[r].dir,
                  !.fields = {"fileId", "filename", "size", "chunkDirName"},
                  !.fileId = req[r].fileId]]
  /\ UNCHANGED <<now, files, notUpload>>

\* catch: `await cleanupChunks(chunkDirName)`, rethrow; outer catch answers 500
CleanupErr(r) ==
  /\ req[r].pc = "fail"
  /\ dirs' = cleanupChunks(dirs, req[r].dir)
  /\ req' = [req EXCEPT ![r] = [IdleReq EXCEPT !.pc = "done", !.status = 500]]
  /\ UNCHANGED <<now, files, notUpload>>

\* cancelChunkedUpload: 404 without metadata, 403 for another device, else cleanup
Cancel ==
  /\ \E d \in DOMAIN dirs, deviceId \in Devices :
       /\ dirs[d].metadata.deviceId = deviceId
       /\ dirs' = cleanupChunks(dirs, d)
  /\ UNCHANGED <<now, req, files, notUpload>>

UploadNext ==
  \/ Tick
  \/ Cancel
  \/ \E r \in Requests : StoreChunk(r)
  \/ \E r \in Requests : CheckComplete(r)
  \/ \E r \in Requests : Progress(r)
  \/ \E r \in Requests : MergeStart(r)
  \/ \E r \in Requests : MergeRead(r)
  \/ \E r \in Requests : Process(r)
  \/ \E r \in Requests : CleanupOk(r)
  \/ \E r \in Requests : CleanupErr(r)

Spec == UploadInit /\ [][UploadNext]_vars

\* ------------------------------------------------ one file, uploaded in parts
\* The parts of one file: part i of FileParts holds byte i + 1.
FileParts == 2
TheFile == <<"a", " ">>
FileContent == [i \in 1..FileParts |-> i]
FileRequests == {1, 2, 3}

FileInit ==
  /\ ClientOff
  /\ MemOff
  /\ DocsOff
  /\ HouseOff
  /\ now = 0
  /\ dirs = <<>>
  /\ req = [r \in FileRequests |-> IdleReq]
  /\ files = {}

\* a chunk request that carries a part of TheFile (any index, any time, repeats)
StoreFilePart(r) ==
  /\ \E chunkIndex \in 0..(FileParts - 1) :
       uploadChunkStore(r, TheFile, "d1", chunkIndex, FileParts, FileContent[chunkIndex + 1])
  /\ UNCHANGED <<now, files, notUpload>>

FileNext ==
  \/ Tick
  \/ Cancel
  \/ \E r \in FileRequests : StoreFilePart(r)
  \/ \E r \in FileRequests : CheckComplete(r)
  \/ \E r \in FileRequests : Progress(r)
  \/ \E r \in FileRequests : MergeStart(r)
  \/ \E r \in FileRequests : MergeRead(r)
  \/ \E r \in FileRequests : Process(r)
  \/ \E r \in FileRequests : CleanupOk(r)
  \/ \E r \in FileRequests : CleanupErr(r)

SpecFile == FileInit /\ [][FileNext]_vars

\* ------------------------------------------- the client's sequential upload
ClientFinal == {"succeeded", "failed", "returned"}

\* uploadFileInChunks after initializeChunkedUpload and splitFileIntoChunks:
\* the loop is about to send chunk 0
ClientInit ==
  /\ MemOff
  /\ DocsOff
  /\ HouseOff
  /\ now = 0
  /\ dirs = <<>>
  /\ req = [r \in Requests |-> IdleReq]
  /\ files = {}
  /\ \E fileName \in FileNames, deviceId \in Devices, totalChunks \in 1..MaxParts :
       client = [pc |-> "send", fileName |-> fileName, deviceId |-> deviceId,
                 totalChunks |-> totalChunks, i |-> 0, chunkDirName |-> NoDir,
                 success |-> FALSE, onSuccess |-> 0, onError |-> 0, cancels |-> 0]

\* `await uploadChunk(chunk, i, totalChunks, file.name, ...)`: the request leaves
ClientSend ==
  /\ client.pc = "send"
  /\ \E chunk \in Bytes :
       uploadChunkStore(1, client.fileName, client.deviceId, client.i,
                        client.totalChunks, chunk)
  /\ client' = [client EXCEPT !.pc = "wait"]
  /\ UNCHANGED <<now, files, memVars, docVars, houseVars>>

\* the response arrives: axios throws outside 2xx; reading
\* uploadResponse.progress.percentage throws when the body has no progress;
\* success needs completed and fileId; else the loop goes on or ends
ClientReceive ==
  /\ client.pc = "wait"
  /\ req[1].pc = "done"
  /\ LET resp == req[1]
         ok2xx == resp.status >= 200 /\ resp.status < 300
     IN  client' =
           IF ~ok2xx
           THEN IF client.chunkDirName # NoDir
                THEN [client EXCEPT !.pc = "cancel"]
                ELSE [client EXCEPT !.pc = "failed", !.onError = @ + 2]
           ELSE IF "progress" \notin resp.fields
           THEN [client EXCEPT !.pc = "cancel", !.chunkDirName = resp.dir]
           ELSE IF "completed" \in resp.fields /\ resp.completed /\ resp.fileId # 0
           THEN [client EXCEPT !.pc = "succeeded", !.chunkDirName = resp.dir,
                               !.success = TRUE, !.onSuccess = @ + 1]
           ELSE IF client.i < client.totalChunks - 1
           THEN [client EXCEPT !.pc = "delay", !.chunkDirName = resp.dir]
           ELSE [client EXCEPT !.pc = "returned", !.chunkDirName = resp.dir,
                               !.i = client.i + 1]
  /\ req' = [req EXCEPT ![1] = IdleReq]
  /\ UNCHANGED <<now, dirs, files, memVars, docVars, houseVars>>

\* `await new Promise(resolve => setTimeout(resolve, 100))`, then i++
ClientDelay ==
  /\ client.pc = "delay"
  /\ now < MaxClock
  /\ now' = now + 1
  /\ client' = [client EXCEPT !.pc = "send", !.i = @ + 1]
  /\ UNCHANGED <<dirs, req, files, memVars, docVars, houseVars>>

\* catch: `await cancelChunkedUpload(chunkDirName)` (its failure is logged),
\* error state, onError, rethrow; the outer catch calls onError again
ClientCancel ==
  /\ client.pc = "cancel"
  /\ dirs' = IF client.chunkDirName \in DOMAIN dirs
                   /\ dirs[client.chunkDirName].metadata.deviceId = client.deviceId
             THEN cleanupChunks(dirs, client.chunkDirName)
             ELSE dirs
  /\ client' = [client EXCEPT !.pc = "failed", !.cancels = @ + 1, !.onError = @ + 2]
  /\ UNCHANGED <<now, req, files, memVars, docVars, houseVars>>

ClientNext ==
  \/ Tick
  \/ ClientSend
  \/ ClientReceive
  \/ ClientDelay
  \/ ClientCancel
  \/ \E r \in Requests : CheckComplete(r)
  \/ \E r \in Requests : Progress(r)
  \/ \E r \in Requests : MergeStart(r)
  \/ \E r \in Requests : MergeRead(r)
  \/ \E r \in Requests : Process(r)
  \/ \E r \in Requests : CleanupOk(r)
  \/ \E r \in Requests : CleanupErr(r)

SpecClient == ClientInit /\ [][ClientNext]_vars

\* -------------------------------------------------- conversation memory
\* memoryManager.ts and chatService: one chat session, its messages, and the
\* operations that run on it, each split at its awaits.

MaxTurns == 2

maxMessagesBeforeSummary == 15
maxHistoryLength == 20
recentMessagesForContext == 8
\* generateConversationSummary returns '' below this many messages
MinSummaryInput == 4

\* a column holding null
Null == "NULL"
\* a non-empty text returned by the model
SummaryText == "S"
\* the callers of optimizeMemory: the summarize endpoint and a chat turn
OptCallers == {"api", "turn"}
\* complete turns a session may already hold when the operations start
PriorTurns == {0, 7}

Max(S) == CHOOSE x \in S : \A y \in S : y <= x

Message(role) == [role |-> role, isSummarized |-> FALSE]

Unsummarized(msgs) == {i \in DOMAIN msgs : ~msgs[i].isSummarized}

RECURSIVE SortedSeq(_)
\* message ids in creation order
SortedSeq(S) ==
  IF S = {} THEN <<>>
  ELSE LET m == CHOOSE x \in S : \A y \in S : x <= y
       IN <<m>> \o SortedSeq(S \ {m})

getRecentMessages_Oldest(msgs, limit) ==
  LET all == SortedSeq(Unsummarized(msgs))
  IN IF Len(all) <= limit THEN all ELSE SubSeq(all, 1, limit)

\* the newest `limit` unsummarized messages, oldest first
getRecentMessages(msgs, limit) ==
  LET all == SortedSeq(Unsummarized(msgs))
  IN IF Len(all) <= limit THEN all
     ELSE SubSeq(all, Len(all) - limit + 1, Len(all))

\* what the model call may return for this input: '' when the input is short
\* or the call fails, otherwise the text of the response
generateConversationSummary(history) ==
  IF Cardinality(history) < MinSummaryInput THEN {""}
  ELSE {"", SummaryText}

\* a chatSession row as prisma creates it
FreshSession == [messageCount |-> 0, isSummarized |-> FALSE,
                 conversationSummary |-> Null, lastSummarizedAt |-> Null]

ClearedSession_KeepDate == [messageCount |-> 0, isSummarized |-> FALSE,
                            conversationSummary |-> Null, lastSummarizedAt |-> "set"]

\* the columns clearConversationMemory writes to the session row
ClearedSession == [messageCount |-> 0, isSummarized |-> FALSE,
                   conversationSummary |-> Null, lastSummarizedAt |-> Null]

\* length of a summary text
TextLength(text) == IF text = SummaryText THEN 1 ELSE 0

\* getMemoryStats on the session row it reads; memoryEfficiency is the
\* fraction <<numerator, denominator>>, absent values are Null
getMemoryStats(sess) ==
  LET hasSummary == sess.conversationSummary \notin {Null, ""}
      estimated == sess.messageCount * 100
      len == TextLength(sess.conversationSummary)
  IN [messageCount |-> sess.messageCount,
      isSummarized |-> sess.isSummarized,
      summaryLength |-> IF sess.conversationSummary = Null THEN Null ELSE <<len>>,
      lastSummarizedAt |-> sess.lastSummarizedAt,
      memoryEfficiency |->
        IF sess.isSummarized /\ hasSummary
        THEN IF len >= estimated THEN <<1, 1>> ELSE <<len, estimated>>
        ELSE IF sess.messageCount > maxMessagesBeforeSummary
             THEN <<maxMessagesBeforeSummary, sess.messageCount>>
             ELSE <<1, 1>>]

Truthy_Always(summary) == TRUE

\* `if (summary)`: the empty string is falsy
Truthy(summary) == summary # ""

\* optimizeMemory has not read the session yet
NoSeen == [session |-> <<>>, messages |-> <<>>]

\* locals of optimizeMemory: `session` as read (seen), history, summary, and
\* how the call ended
IdleOpt == [pc |-> "idle", seen |-> NoSeen, history |-> {}, summary |-> "",
            optimized |-> FALSE, threw |-> FALSE]

shouldSummarize_Above(sess) ==
  sess.messageCount > maxMessagesBeforeSummary /\ ~sess.isSummarized

\* MemoryManager.shouldSummarize on the session row it reads
shouldSummarize(sess) ==
  sess.messageCount >= maxMessagesBeforeSummary /\ ~sess.isSummarized

\* locals of processQuestion: summarized and summary are what getOptimizedContext
\* read from the session, history and shouldSummarize what it returns
IdleTurn(n) ==
  [pc |-> "idle", n |-> n, summarized |-> FALSE, summary |-> Null,
   shouldSummarize |-> FALSE, history |-> <<>>]

MemInit ==
  /\ now = 0
  /\ dirs = <<>>
  /\ req = <<>>
  /\ files = {}
  /\ ClientOff
  /\ DocsOff
  /\ HouseOff
  /\ \E k \in PriorTurns :
       /\ messages = [i \in 1..(2 * k) |->
                        Message(IF i % 2 = 1 THEN "user" ELSE "assistant")]
       /\ session = [messageCount |-> 2 * k, isSummarized |-> FALSE,
                     conversationSummary |-> Null, lastSummarizedAt |-> Null]
  /\ opt = [p \in OptCallers |-> IdleOpt]
  /\ clr = "idle"
  /\ turn = IdleTurn(0)

\* summarizeConversation: the ownership check passed, optimizeMemory is called
SummarizeStart ==
  /\ opt["api"].pc = "idle"
  /\ opt' = [opt EXCEPT !["api"] = [IdleOpt EXCEPT !.pc = "read"]]
  /\ UNCHANGED <<session, messages, clr, turn, notMem>>

\* optimizeMemory: read the session with its messages and decide
OptimizeRead(p) ==
  /\ opt[p].pc = "read"
  /\ LET history == Unsummarized(messages)
         seen == [session |-> session, messages |-> messages]
     IN IF \/ session.messageCount < maxMessagesBeforeSummary
           \/ session.isSummarized
           \/ history = {}
        THEN opt' = [opt EXCEPT ![p] =
                       [IdleOpt EXCEPT !.pc = "done", !.seen = seen]]
        ELSE opt' = [opt EXCEPT ![p] =
                       [IdleOpt EXCEPT !.pc = "summarize", !.seen = seen,
                                       !.history = history]]
  /\ UNCHANGED <<session, messages, clr, turn, notMem>>

\* optimizeMemory: the summary comes back
OptimizeSummary(p) ==
  /\ opt[p].pc = "summarize"
  /\ \E summary \in generateConversationSummary(opt[p].history) :
       opt' = [opt EXCEPT ![p] =
                 IF Truthy(summary)
                 THEN [@ EXCEPT !.pc = "session", !.summary = summary]
                 ELSE [@ EXCEPT !.pc = "done"]]
  /\ UNCHANGED <<session, messages, clr, turn, notMem>>

\* optimizeMemory: prisma.chatSession.update; a rejected write throws
OptimizeSession(p) ==
  /\ opt[p].pc = "session"
  /\ \E ok \in BOOLEAN :
       IF ok
       THEN /\ session' = [session EXCEPT !.conversationSummary = opt[p].summary,
                                          !.lastSummarizedAt = "set",
                                          !.isSummarized = TRUE]
            /\ opt' = [opt EXCEPT ![p].pc = "messages"]
       ELSE /\ session' = session
            /\ opt' = [opt EXCEPT ![p].pc = "done", ![p].threw = TRUE]
  /\ UNCHANGED <<messages, clr, turn, notMem>>

\* optimizeMemory: prisma.chatMessage.updateMany where isSummarized = false;
\* a rejected write throws
OptimizeMessages(p) ==
  /\ opt[p].pc = "messages"
  /\ \E ok \in BOOLEAN :
       IF ok
       THEN /\ messages' = [i \in DOMAIN messages |->
                              [messages[i] EXCEPT !.isSummarized = TRUE]]
            /\ opt' = [opt EXCEPT ![p].pc = "done", ![p].optimized = TRUE]
       ELSE /\ messages' = messages
            /\ opt' = [opt EXCEPT ![p].pc = "done", ![p].threw = TRUE]
  /\ UNCHANGED <<session, clr, turn, notMem>>

\* summarizeConversation returns (or throws when nothing was optimized)
SummarizeReturn ==
  /\ opt["api"].pc = "done"
  /\ opt' = [opt EXCEPT !["api"] = IdleOpt]
  /\ UNCHANGED <<session, messages, clr, turn, notMem>>

\* clearConversationMemory: the ownership check passed
ClearStart ==
  /\ clr = "idle"
  /\ clr' = "session"
  /\ UNCHANGED <<session, messages, opt, turn, notMem>>

\* clearConversationMemory: prisma.chatSession.update
ClearSession ==
  /\ clr = "session"
  /\ session' = ClearedSession
  /\ clr' = "messages"
  /\ UNCHANGED <<messages, opt, turn, notMem>>

\* clearConversationMemory: prisma.chatMessage.updateMany
ClearMessages ==
  /\ clr = "messages"
  /\ messages' = [i \in DOMAIN messages |->
                    [messages[i] EXCEPT !.isSummarized = FALSE]]
  /\ clr' = "idle"
  /\ UNCHANGED <<session, opt, turn, notMem>>

\* processQuestion: the session is found
TurnStart ==
  /\ turn.pc = "idle"
  /\ turn.n < MaxTurns
  /\ turn' = [IdleTurn(turn.n + 1) EXCEPT !.pc = "ctxSession"]
  /\ UNCHANGED <<session, messages, opt, clr, notMem>>

\* getOptimizedContext: read the session
TurnCtxSession ==
  /\ turn.pc = "ctxSession"
  /\ LET summarized == /\ session.isSummarized
                        /\ session.conversationSummary \notin {Null, ""}
     IN turn' = [turn EXCEPT
          !.pc = "ctxShould",
          !.summarized = summarized,
          !.summary = IF summarized THEN session.conversationSummary ELSE Null]
  /\ UNCHANGED <<session, messages, opt, clr, notMem>>

\* getOptimizedContext: shouldSummarize reads the session again
TurnCtxShould ==
  /\ turn.pc = "ctxShould"
  /\ turn' = [turn EXCEPT !.pc = "ctxRecent",
                          !.shouldSummarize = shouldSummarize(session)]
  /\ UNCHANGED <<session, messages, opt, clr, notMem>>

\* getOptimizedContext: read the history, short when summarized or long
TurnCtxRecent ==
  /\ turn.pc = "ctxRecent"
  /\ LET limit == IF turn.summarized \/ turn.shouldSummarize
                  THEN recentMessagesForContext
                  ELSE maxHistoryLength
     IN turn' = [turn EXCEPT !.pc = "user",
                             !.history = getRecentMessages(messages, limit)]
  /\ UNCHANGED <<session, messages, opt, clr, notMem>>

\* processQuestion: store the user's message
TurnUser ==
  /\ turn.pc = "user"
  /\ messages' = Append(messages, Message("user"))
  /\ turn' = [turn EXCEPT !.pc = "count1"]
  /\ UNCHANGED <<session, opt, clr, notMem>>

\* processQuestion: messageCount increment after the user's message
TurnCount1 ==
  /\ turn.pc = "count1"
  /\ session' = [session EXCEPT !.messageCount = @ + 1]
  /\ turn' = [turn EXCEPT !.pc = "answer"]
  /\ UNCHANGED <<messages, opt, clr, notMem>>

\* processQuestion: retrieval and generation; either may throw and end the turn
TurnAnswer ==
  /\ turn.pc = "answer"
  /\ \E ok \in BOOLEAN :
       IF ~ok
       THEN /\ turn' = IdleTurn(turn.n)
            /\ opt' = opt
       ELSE LET should == /\ Len(turn.history) > 0
                          /\ \/ turn.shouldSummarize
                             \/ Len(turn.history) > maxHistoryLength
            IN IF should
               THEN /\ turn' = [turn EXCEPT !.pc = "optimize"]
                    /\ opt' = [opt EXCEPT !["turn"] =
                                 [IdleOpt EXCEPT !.pc = "read"]]
               ELSE /\ turn' = [turn EXCEPT !.pc = "assistant"]
                    /\ opt' = opt
  /\ UNCHANGED <<session, messages, clr, notMem>>

\* processQuestion: optimizeMemory has returned, or has thrown and ended the turn
TurnOptimized ==
  /\ turn.pc = "optimize"
  /\ opt["turn"].pc = "done"
  /\ opt' = [opt EXCEPT !["turn"] = IdleOpt]
  /\ turn' = IF opt["turn"].threw
             THEN IdleTurn(turn.n)
             ELSE [turn EXCEPT !.pc = "assistant"]
  /\ UNCHANGED <<session, messages, clr, notMem>>

\* processQuestion: store the assistant's message
TurnAssistant ==
  /\ turn.pc = "assistant"
  /\ messages' = Append(messages, Message("assistant"))
  /\ turn' = [turn EXCEPT !.pc = "count2"]
  /\ UNCHANGED <<session, opt, clr, notMem>>

\* processQuestion: messageCount increment after the assistant's message
TurnCount2 ==
  /\ turn.pc = "count2"
  /\ session' = [session EXCEPT !.messageCount = @ + 1]
  /\ turn' = IdleTurn(turn.n)
  /\ UNCHANGED <<messages, opt, clr, notMem>>

MemNext ==
  \/ SummarizeStart
  \/ \E p \in OptCallers : OptimizeRead(p)
  \/ \E p \in OptCallers : OptimizeSummary(p)
  \/ \E p \in OptCallers : OptimizeSession(p)
  \/ \E p \in OptCallers : OptimizeMessages(p)
  \/ SummarizeReturn
  \/ ClearStart
  \/ ClearSession
  \/ ClearMessages
  \/ TurnStart
  \/ TurnCtxSession
  \/ TurnCtxShould
  \/ TurnCtxRecent
  \/ TurnUser
  \/ TurnCount1
  \/ TurnAnswer
  \/ TurnOptimized
  \/ TurnAssistant
  \/ TurnCount2

SpecMem == MemInit /\ [][MemNext]_vars

\* ------------------------------------------- one memory operation at a time
\* The same operations, each run to its end before the next one starts, on a
\* session in any of the shapes the operations leave behind.

\* message counts of the sessions the operations start from
SeqLens == {0, 3, 14, 15, 16, 21}

NoOperation ==
  /\ \A p \in OptCallers : opt[p].pc = "idle"
  /\ clr = "idle"
  /\ turn.pc = "idle"

\* n messages of which the first j are summarized; cleared: the counter was
\* reset by clearConversationMemory
SeqInit ==
  /\ now = 0
  /\ dirs = <<>>
  /\ req = <<>>
  /\ files = {}
  /\ ClientOff
  /\ DocsOff
  /\ HouseOff
  /\ \E n \in SeqLens, j \in 0..Max(SeqLens), cleared \in BOOLEAN :
       /\ j <= n
       /\ j > 0 => (j >= maxMessagesBeforeSummary /\ ~cleared)
       /\ messages = [i \in 1..n |->
                        [role |-> IF i % 2 = 1 THEN "user" ELSE "assistant",
                         isSummarized |-> i <= j]]
       /\ session = IF j > 0
                    THEN [messageCount |-> n, isSummarized |-> TRUE,
                          conversationSummary |-> SummaryText,
                          lastSummarizedAt |-> "set"]
                    ELSE [messageCount |-> IF cleared THEN 0 ELSE n,
                          isSummarized |-> FALSE,
                          conversationSummary |-> Null, lastSummarizedAt |-> Null]
  /\ opt = [p \in OptCallers |-> IdleOpt]
  /\ clr = "idle"
  /\ turn = IdleTurn(0)

SeqNext ==
  \/ NoOperation /\ SummarizeStart
  \/ NoOperation /\ ClearStart
  \/ NoOperation /\ TurnStart
  \/ \E p \in OptCallers : OptimizeRead(p)
  \/ \E p \in OptCallers : OptimizeSummary(p)
  \/ \E p \in OptCallers : OptimizeSession(p)
  \/ \E p \in OptCallers : OptimizeMessages(p)
  \/ SummarizeReturn
  \/ ClearSession
  \/ ClearMessages
  \/ TurnCtxSession
  \/ TurnCtxShould
  \/ TurnCtxRecent
  \/ TurnUser
  \/ TurnCount1
  \/ TurnAnswer
  \/ TurnOptimized
  \/ TurnAssistant
  \/ TurnCount2

SpecSeq == SeqInit /\ [][SeqNext]_vars

\* -------------------------------------------------- documents and retrieval
\* fileService.processAndStoreFile writes one file row and one chunk row per
\* chunk; processQuestion retrieves with textProcessor.findSimilarChunks.

DocChunks == 3

\* the limit processQuestion passes to findSimilarChunks
topK == 5

\* file 1 was ingested earlier by d1; file 2 is ingested by d2 while we watch
StoredFileId == 1
NewFileId == 2
FileIds == {StoredFileId, NewFileId}
FileOwner(f) == IF f = StoredFileId THEN "d1" ELSE "d2"

\* what generateEmbedding returns for chunk i of file f, and for the questions
EmbeddingOf(f, i) == <<i - 2, f - 1>>
Questions == {<<1, 0>>, <<1, 1>>}

FileRow(f) == [id |-> f, deviceId |-> FileOwner(f)]
ChunkRow(f, i) == [fileId |-> f, chunkIndex |-> i - 1, embedding |-> EmbeddingOf(f, i)]

Dot(vecA, vecB) == vecA[1] * vecB[1] + vecA[2] * vecB[2]
SignedSquare(x) == IF x < 0 THEN 0 - (x * x) ELSE x * x

\* calculateCosineSimilarity(vecA, vecB) = num / sqrt(den): 0 when a norm is 0
calculateCosineSimilarity(vecA, vecB) ==
  IF Dot(vecA, vecA) = 0 \/ Dot(vecB, vecB) = 0
  THEN [num |-> 0, den |-> 1]
  ELSE [num |-> Dot(vecA, vecB), den |-> Dot(vecA, vecA) * Dot(vecB, vecB)]

\* s1 < s2 for two similarities num / sqrt(den)
SimLess(s1, s2) ==
  SignedSquare(s1.num) * s2.den < SignedSquare(s2.num) * s1.den

RECURSIVE SortAndSlice(_, _, _)
\* sort descending by similarity and keep the first k; rows of equal
\* similarity keep the order findMany returned them in, which is unspecified
SortAndSlice(question, rows, k) ==
  IF k = 0 \/ rows = {} THEN {<<>>}
  ELSE LET sim(c) == calculateCosineSimilarity(question, c.embedding)
           top == {c \in rows : \A d \in rows : ~SimLess(sim(c), sim(d))}
       IN UNION {{<<c>> \o rest : rest \in SortAndSlice(question, rows \ {c}, k - 1)}
                   : c \in top}

\* mutant: the comparator is `a.similarity - b.similarity`
findSimilarChunks_Ascending(rows, question, k, fileIds, deviceId) ==
  SortAndSlice(<<0 - question[1], 0 - question[2]>>,
               {c \in rows : c.fileId \in fileIds}, k)

\* textProcessor.findSimilarChunks: the possible results; deviceId is accepted
\* and not used
findSimilarChunks(rows, question, k, fileIds, deviceId) ==
  SortAndSlice(question, {c \in rows : c.fileId \in fileIds}, k)

IdleQuery == [pc |-> "idle", deviceId |-> "", fileIds |-> {}, question |-> <<>>,
              result |-> <<>>]

DocsInit ==
  /\ now = 0
  /\ dirs = <<>>
  /\ req = <<>>
  /\ ClientOff
  /\ MemOff
  /\ HouseOff
  /\ files = {FileRow(StoredFileId)}
  /\ chunkRows = {ChunkRow(StoredFileId, i) : i \in 1..DocChunks}
  /\ ingest = [pc |-> "idle", tasks |-> <<>>]
  /\ query = IdleQuery

\* processAndStoreFile: download, text extraction and splitting; any may throw
IngestStart ==
  /\ ingest.pc = "idle"
  /\ \E ok \in BOOLEAN :
       ingest' = [ingest EXCEPT !.pc = IF ok THEN "create" ELSE "failed"]
  /\ UNCHANGED <<files, chunkRows, query, notDocs>>

\* processAndStoreFile: prisma.file.create, then one task per chunk is started
IngestCreateFile ==
  /\ ingest.pc = "create"
  /\ \E ok \in BOOLEAN :
       IF ok
       THEN /\ files' = files \cup {FileRow(NewFileId)}
            /\ ingest' = [pc |-> "chunks", tasks |-> [i \in 1..DocChunks |-> "pending"]]
       ELSE /\ files' = files
            /\ ingest' = [ingest EXCEPT !.pc = "failed"]
  /\ UNCHANGED <<chunkRows, query, notDocs>>

\* one chunk task: generateEmbedding, then prisma.chunk.create; either may throw
IngestChunk(i) ==
  /\ i \in DOMAIN ingest.tasks
  /\ ingest.tasks[i] = "pending"
  /\ \E ok \in BOOLEAN :
       IF ok
       THEN /\ chunkRows' = chunkRows \cup {ChunkRow(NewFileId, i)}
            /\ ingest' = [ingest EXCEPT !.tasks[i] = "created"]
       ELSE /\ chunkRows' = chunkRows
            /\ ingest' = [ingest EXCEPT !.tasks[i] = "failed"]
  /\ UNCHANGED <<files, query, notDocs>>

\* Promise.all settles: rejected by the first failed task, whatever the others
\* are doing, or fulfilled when every task has created its row
IngestSettle ==
  /\ ingest.pc = "chunks"
  /\ \/ /\ \E i \in DOMAIN ingest.tasks : ingest.tasks[i] = "failed"
        /\ ingest' = [ingest EXCEPT !.pc = "failed"]
     \/ /\ \A i \in DOMAIN ingest.tasks : ingest.tasks[i] = "created"
        /\ ingest' = [ingest EXCEPT !.pc = "ok"]
  /\ UNCHANGED <<files, chunkRows, query, notDocs>>

\* processQuestion reaches step 4 with the caller's device and file ids
QueryStart ==
  /\ query.pc = "idle"
  /\ \E deviceId \in Devices, fileIds \in SUBSET FileIds, question \in Questions :
       query' = [IdleQuery EXCEPT !.pc = "find", !.deviceId = deviceId,
                                  !.fileIds = fileIds, !.question = question]
  /\ UNCHANGED <<files, chunkRows, ingest, notDocs>>

\* findSimilarChunks(question, 5, fileIds, deviceId); generateEmbedding may throw
QueryFind ==
  /\ query.pc = "find"
  /\ \E ok \in BOOLEAN :
       IF ok
       THEN \E result \in findSimilarChunks(chunkRows, query.question, topK,
                                            query.fileIds, query.deviceId) :
              query' = [query EXCEPT !.pc = "done", !.result = result]
       ELSE query' = IdleQuery
  /\ UNCHANGED <<files, chunkRows, ingest, notDocs>>

\* the turn goes on with the retrieved chunks
QueryReturn ==
  /\ query.pc = "done"
  /\ query' = IdleQuery
  /\ UNCHANGED <<files, chunkRows, ingest, notDocs>>

DocsNext ==
  \/ IngestStart
  \/ IngestCreateFile
  \/ \E i \in 1..DocChunks : IngestChunk(i)
  \/ IngestSettle
  \/ QueryStart
  \/ QueryFind
  \/ QueryReturn

SpecDocs == DocsInit /\ [][DocsNext]_vars

\* -------------------------------------------------- upload initialization
\* initializeChunkedUpload with calculateChunkSize and calculateTotalChunks.

MB == 1024 * 1024

\* declared file sizes in bytes: none, and around every size tier
SizesMB == {1, 2, 3, 10, 49, 50, 51, 99, 100, 101, 150, 200}
FileSizes == {0 - 1, 0, 1} \cup {k * MB + e : k \in SizesMB, e \in {0 - 1, 0, 1}}

allowedTypes == {"application/pdf", "text/plain",
                 "application/vnd.openxmlformats-officedocument.wordprocessingml.document"}
MimeTypes == {"application/pdf", "text/plain", "image/png"}

calculateChunkSize_TiersSwapped(fileSize) ==
  IF fileSize > 100 * MB THEN 5 * MB
  ELSE IF fileSize > 50 * MB THEN 10 * MB
  ELSE 2 * MB

calculateChunkSize(fileSize) ==
  IF fileSize > 100 * MB THEN 10 * MB
  ELSE IF fileSize > 50 * MB THEN 5 * MB
  ELSE 2 * MB

\* Math.ceil(fileSize / chunkSize) for a positive fileSize
calculateTotalChunks(fileSize, chunkSize) == (fileSize + chunkSize - 1) \div chunkSize

IdleInitUp == [pc |-> "idle", fileSize |-> 0, mimeType |-> "", status |-> 0,
               chunkSize |-> 0, totalChunks |-> 0]

InitUpInit ==
  /\ now = 0
  /\ dirs = <<>>
  /\ req = <<>>
  /\ files = {}
  /\ ClientOff
  /\ MemOff
  /\ DocsOff
  /\ initUp = IdleInitUp
  /\ cancelRes = [pc |-> "off"]
  /\ reaper = [pc |-> "off"]

\* initializeChunkedUpload: every ApiError thrown inside the try, the 400s of
\* the validation included, is caught and rethrown as ApiError(500)
initializeChunkedUpload(fileSize, mimeType) ==
  IF fileSize = 0 \/ mimeType \notin allowedTypes \/ fileSize <= 0
  THEN [pc |-> "done", fileSize |-> fileSize, mimeType |-> mimeType,
        status |-> 500, chunkSize |-> 0, totalChunks |-> 0]
  ELSE LET chunkSize == calculateChunkSize(fileSize)
       IN [pc |-> "done", fileSize |-> fileSize, mimeType |-> mimeType,
           status |-> 200, chunkSize |-> chunkSize,
           totalChunks |-> calculateTotalChunks(fileSize, chunkSize)]

InitializeUpload ==
  /\ initUp.pc = "idle"
  /\ \E fileSize \in FileSizes, mimeType \in MimeTypes :
       initUp' = initializeChunkedUpload(fileSize, mimeType)
  /\ UNCHANGED <<now, dirs, req, files, client, memVars, docVars, cancelRes, reaper>>

\* the response is sent; the next request can come
InitializeReturn ==
  /\ initUp.pc = "done"
  /\ initUp' = IdleInitUp
  /\ UNCHANGED <<now, dirs, req, files, client, memVars, docVars, cancelRes, reaper>>

InitUpNext ==
  \/ InitializeUpload
  \/ InitializeReturn

SpecInitUp == InitUpInit /\ [][InitUpNext]_vars

\* -------------------------------------------------- cancel and the reaper
\* cancelChunkedUpload, and cleanupOldChunks run every six hours by the
\* setInterval of startServer, next to the chunk handlers. Time is in
\* milliseconds and advances by whole sweep intervals.

MaxAdvances == 5

\* 24 hours: the age after which cleanupOldChunks removes a directory
maxAge == 24 * 60 * 60 * 1000
\* 6 hours: the period of the setInterval
sweepInterval == 6 * 60 * 60 * 1000

\* one chunk request is enough to create a session directory
SweepRequests == {1}

isOld_Reversed(nowAt, mtime) == mtime - nowAt > maxAge

\* mutant: no retention window, every directory the sweep lists is removed
isOld_NoWindow(nowAt, mtime) == nowAt - mtime >= 0

\* `now - stats.mtime.getTime() > maxAge`
isOld(nowAt, mtime) == nowAt - mtime > maxAge

\* last-modified time of a chunk directory: entries are only ever added to it
\* at the time that is part of its name
mtime(d) == d[3]

IdleCancel == [pc |-> "idle", dir |-> NoDir, deviceId |-> "", status |-> 0]
IdleReaper == [pc |-> "idle", names |-> {}, t |-> 0]

SweepInit ==
  /\ ClientOff
  /\ MemOff
  /\ DocsOff
  /\ now = 0
  /\ dirs = <<>>
  /\ req = [r \in SweepRequests |-> IdleReq]
  /\ files = {}
  /\ initUp = [pc |-> "off"]
  /\ cancelRes = IdleCancel
  /\ reaper = IdleReaper

\* a chunk request with the first part of TheFile, declared as the only part
\* (the upload completes at once) or as one of FileParts (it never completes)
SweepStore(r) ==
  /\ \E totalChunks \in {1, FileParts} :
       uploadChunkStore(r, TheFile, "d1", 0, totalChunks, FileContent[1])
  /\ UNCHANGED <<now, files, notUpload>>

\* six hours pass
Advance ==
  /\ now < MaxAdvances * sweepInterval
  /\ now' = now + sweepInterval
  /\ UNCHANGED <<dirs, req, files, notUpload>>

\* cancelChunkedUpload for a chunkDirName some response has carried: 404
\* without metadata and 403 for another device, both rethrown by the catch as
\* ApiError(500); else cleanupChunks and 200
CancelUpload ==
  /\ \E r \in DOMAIN req, deviceId \in Devices :
       LET d == req[r].dir
       IN /\ req[r].pc = "done"
          /\ d # NoDir
          /\ IF d \notin DOMAIN dirs \/ dirs[d].metadata.deviceId # deviceId
             THEN /\ dirs' = dirs
                  /\ cancelRes' = [pc |-> "done", dir |-> d, deviceId |-> deviceId,
                                   status |-> 500]
             ELSE /\ dirs' = cleanupChunks(dirs, d)
                  /\ cancelRes' = [pc |-> "done", dir |-> d, deviceId |-> deviceId,
                                   status |-> 200]
  /\ UNCHANGED <<now, req, files, client, memVars, docVars, initUp, reaper>>

\* cleanupOldChunks: readdir, then now = Date.now()
ReapStart ==
  /\ reaper.pc = "idle"
  /\ reaper' = [pc |-> "loop", names |-> DOMAIN dirs, t |-> now]
  /\ UNCHANGED <<now, dirs, req, files, client, memVars, docVars, initUp, cancelRes>>

\* cleanupOldChunks: one round of the loop, in readdir's order: stat, which
\* throws for a directory that is gone and ends the sweep in the catch, then
\* rm of a directory that is old
ReapStep ==
  /\ reaper.pc = "loop"
  /\ \E d \in reaper.names :
       IF d \notin DOMAIN dirs
       THEN /\ reaper' = IdleReaper
            /\ dirs' = dirs
       ELSE /\ reaper' = [reaper EXCEPT !.names = @ \ {d}]
            /\ dirs' = IF isOld(reaper.t, mtime(d)) THEN cleanupChunks(dirs, d) ELSE dirs
  /\ UNCHANGED <<now, req, files, client, memVars, docVars, initUp, cancelRes>>

\* cleanupOldChunks: the loop is over
ReapEnd ==
  /\ reaper.pc = "loop"
  /\ reaper.names = {}
  /\ reaper' = IdleReaper
  /\ UNCHANGED <<now, dirs, req, files, client, memVars, docVars, initUp, cancelRes>>

SweepNext ==
  \/ Advance
  \/ CancelUpload
  \/ ReapStart
  \/ ReapStep
  \/ ReapEnd
  \/ \E r \in SweepRequests : SweepStore(r)
  \/ \E r \in SweepRequests : CheckComplete(r)
  \/ \E r \in SweepRequests : Progress(r)
  \/ \E r \in SweepRequests : MergeStart(r)
  \/ \E r \in SweepRequests : MergeRead(r)
  \/ \E r \in SweepRequests : Process(r)
  \/ \E r \in SweepRequests : CleanupOk(r)
  \/ \E r \in SweepRequests : CleanupErr(r)

SpecSweep == SweepInit /\ [][SweepNext]_vars

\* setInterval keeps starting sweeps and a running sweep keeps going
SpecSweepFair ==
  /\ SweepInit
  /\ [][SweepNext]_vars
  /\ WF_vars(ReapStart)
  /\ WF_vars(ReapStep)
  /\ WF_vars(ReapEnd)

\* six hours pass; a chunk request that is being handled does not stay in the
\* handler for the whole of maxAge (its awaits are local file reads, the
\* upload call and the embedding calls)
Elapse ==
  /\ Advance
  /\ \A r \in SweepRequests :
       req[r].pc \notin {"idle", "done"} => now' - mtime(req[r].dir) < maxAge

ReapNext ==
  \/ Elapse
  \/ CancelUpload
  \/ ReapStart
  \/ ReapStep
  \/ ReapEnd
  \/ \E r \in SweepRequests : SweepStore(r)
  \/ \E r \in SweepRequests : CheckComplete(r)
  \/ \E r \in SweepRequests : Progress(r)
  \/ \E r \in SweepRequests : MergeStart(r)
  \/ \E r \in SweepRequests : MergeRead(r)
  \/ \E r \in SweepRequests : Process(r)
  \/ \E r \in SweepRequests : CleanupOk(r)
  \/ \E r \in SweepRequests : CleanupErr(r)

\* the sweeps next to chunk requests that the server answers within maxAge
SpecReap == SweepInit /\ [][ReapNext]_vars

\* the largest limit a caller of findSimilarChunks passes here
MaxK == 3

\* every chunk row of the two files
AllChunkRows == {ChunkRow(f, i) : f \in FileIds, i \in 1..DocChunks}

\* findSimilarChunks over any chunk table, with any question, limit and file ids
FindInit ==
  /\ now = 0
  /\ dirs = <<>>
  /\ req = <<>>
  /\ ClientOff
  /\ MemOff
  /\ HouseOff
  /\ files = {FileRow(f) : f \in FileIds}
  /\ chunkRows \in SUBSET AllChunkRows
  /\ ingest = [pc |-> "off"]
  /\ query = [pc |-> "idle", k |-> 0, fileIds |-> {}, question |-> <<>>,
              result |-> <<>>]

\* a call of findSimilarChunks(question, topK, fileIds, deviceId)
FindCall ==
  /\ query.pc = "idle"
  /\ \E k \in 0..MaxK, fileIds \in SUBSET FileIds, question \in Questions :
       query' = [query EXCEPT !.pc = "called", !.k = k, !.fileIds = fileIds,
                              !.question = question]
  /\ UNCHANGED <<files, chunkRows, ingest, notDocs>>

\* findMany, map, sort and slice: the call returns
FindReturn ==
  /\ query.pc = "called"
  /\ \E result \in findSimilarChunks(chunkRows, query.question, query.k,
                                     query.fileIds, "d1") :
       query' = [query EXCEPT !.pc = "returned", !.result = result]
  /\ UNCHANGED <<files, chunkRows, ingest, notDocs>>

FindNext ==
  \/ FindCall
  \/ FindReturn

SpecFind == FindInit /\ [][FindNext]_vars

\* ------------------------------------------- chat turns and session ownership
MaxAsks == 2

\* no chatSessionId in the request, no row found
NoSession == 0
StoredSessionId == 1
SessionIds == 1..(MaxAsks + 1)

\* prior turns of the stored session: none, or enough to reach the threshold
StoredTurns == {0, 8}

\* a chatSession row with its owner
SessionRow(deviceId, sess) ==
  [deviceId |-> deviceId, messageCount |-> sess.messageCount,
   isSummarized |-> sess.isSummarized,
   conversationSummary |-> sess.conversationSummary,
   lastSummarizedAt |-> sess.lastSummarizedAt]

\* mutant: the lookup is by id alone
findSession_AnyOwner(sessions, chatSessionId, deviceId) ==
  IF chatSessionId \in DOMAIN sessions THEN chatSessionId ELSE NoSession

\* prisma.chatSession.findFirst({ where: { id: chatSessionId, deviceId } })
findSession(sessions, chatSessionId, deviceId) ==
  IF /\ chatSessionId \in DOMAIN sessions
     /\ sessions[chatSessionId].deviceId = deviceId
  THEN chatSessionId
  ELSE NoSession

IdleAsk(n) ==
  [pc |-> "idle", n |-> n, deviceId |-> "", existingSessionId |-> NoSession,
   chatSessionId |-> NoSession, summarized |-> FALSE, shouldSummarize |-> FALSE,
   history |-> <<>>]

\* one stored session of device d1, no request yet
OwnInit ==
  /\ now = 0
  /\ dirs = <<>>
  /\ req = <<>>
  /\ files = {}
  /\ ClientOff
  /\ DocsOff
  /\ HouseOff
  /\ \E k \in StoredTurns :
       /\ messages = [s \in {StoredSessionId} |->
                        [i \in 1..(2 * k) |->
                           Message(IF i % 2 = 1 THEN "user" ELSE "assistant")]]
       /\ session = [s \in {StoredSessionId} |->
                       SessionRow("d1", [FreshSession EXCEPT !.messageCount = 2 * k])]
  /\ opt = <<>>
  /\ clr = "off"
  /\ turn = IdleAsk(0)

\* askQuestion: the device of the request and the chatSessionId of its body
AskStart ==
  /\ turn.pc = "idle"
  /\ turn.n < MaxAsks
  /\ \E deviceId \in Devices, existingSessionId \in {NoSession} \cup SessionIds :
       turn' = [IdleAsk(turn.n + 1) EXCEPT !.pc = "find", !.deviceId = deviceId,
                                           !.existingSessionId = existingSessionId]
  /\ UNCHANGED <<session, messages, opt, clr, notMem>>

\* processQuestion step 1: `if (chatSessionId)` findFirst with the owner filter
AskFind ==
  /\ turn.pc = "find"
  /\ LET found == IF turn.existingSessionId # NoSession
                  THEN findSession(session, turn.existingSessionId, turn.deviceId)
                  ELSE NoSession
     IN turn' = IF found # NoSession
                THEN [turn EXCEPT !.pc = "context", !.chatSessionId = found]
                ELSE [turn EXCEPT !.pc = "create"]
  /\ UNCHANGED <<session, messages, opt, clr, notMem>>

\* processQuestion step 1: `if (!session)` create a session of the caller
AskCreate ==
  /\ turn.pc = "create"
  /\ LET id == Cardinality(DOMAIN session) + 1
     IN /\ session' = [s \in (DOMAIN session) \cup {id} |->
                         IF s = id THEN SessionRow(turn.deviceId, FreshSession)
                         ELSE session[s]]
        /\ messages' = [s \in (DOMAIN messages) \cup {id} |->
                          IF s = id THEN <<>> ELSE messages[s]]
        /\ turn' = [turn EXCEPT !.pc = "context", !.chatSessionId = id]
  /\ UNCHANGED <<opt, clr, notMem>>

\* processQuestion step 2: getOptimizedContext(chatSessionId)
AskContext ==
  /\ turn.pc = "context"
  /\ LET sess == session[turn.chatSessionId]
         summarized == sess.isSummarized /\ sess.conversationSummary \notin {Null, ""}
         should == shouldSummarize(sess)
         limit == IF summarized \/ should THEN recentMessagesForContext
                  ELSE maxHistoryLength
     IN turn' = [turn EXCEPT
          !.pc = "user", !.summarized = summarized, !.shouldSummarize = should,
          !.history = getRecentMessages(messages[turn.chatSessionId], limit)]
  /\ UNCHANGED <<session, messages, opt, clr, notMem>>

\* processQuestion step 3: the user's message and the counter
AskUser ==
  /\ turn.pc = "user"
  /\ messages' = [messages EXCEPT ![turn.chatSessionId] = Append(@, Message("user"))]
  /\ turn' = [turn EXCEPT !.pc = "count1"]
  /\ UNCHANGED <<session, opt, clr, notMem>>

AskCount1 ==
  /\ turn.pc = "count1"
  /\ session' = [session EXCEPT ![turn.chatSessionId].messageCount = @ + 1]
  /\ turn' = [turn EXCEPT !.pc = "answer"]
  /\ UNCHANGED <<messages, opt, clr, notMem>>

\* processQuestion steps 4 and 5: retrieval and generation; either may throw
AskAnswer ==
  /\ turn.pc = "answer"
  /\ \E ok \in BOOLEAN :
       turn' = IF ~ok THEN IdleAsk(turn.n)
               ELSE IF /\ Len(turn.history) > 0
                       /\ \/ turn.shouldSummarize
                          \/ Len(turn.history) > maxHistoryLength
               THEN [turn EXCEPT !.pc = "optimize"]
               ELSE [turn EXCEPT !.pc = "assistant"]
  /\ UNCHANGED <<session, messages, opt, clr, notMem>>

\* optimizeMemory(chatSessionId): nothing to do or an empty summary, or the
\* session update followed by updateMany; either write may throw
AskOptimize ==
  /\ turn.pc = "optimize"
  /\ LET id == turn.chatSessionId
         sess == session[id]
         history == Unsummarized(messages[id])
         updated == [sess EXCEPT !.conversationSummary = SummaryText,
                                 !.lastSummarizedAt = "set", !.isSummarized = TRUE]
         flagged == [i \in DOMAIN messages[id] |->
                       [messages[id][i] EXCEPT !.isSummarized = TRUE]]
     IN IF \/ sess.messageCount < maxMessagesBeforeSummary
           \/ sess.isSummarized
           \/ history = {}
        THEN /\ turn' = [turn EXCEPT !.pc = "assistant"]
             /\ UNCHANGED <<session, messages>>
        ELSE \E summary \in generateConversationSummary(history) :
               IF ~Truthy(summary)
               THEN /\ turn' = [turn EXCEPT !.pc = "assistant"]
                    /\ UNCHANGED <<session, messages>>
               ELSE \/ /\ turn' = IdleAsk(turn.n)
                       /\ UNCHANGED <<session, messages>>
                    \/ /\ turn' = IdleAsk(turn.n)
                       /\ session' = [session EXCEPT ![id] = updated]
                       /\ messages' = messages
                    \/ /\ turn' = [turn EXCEPT !.pc = "assistant"]
                       /\ session' = [session EXCEPT ![id] = updated]
                       /\ messages' = [messages EXCEPT ![id] = flagged]
  /\ UNCHANGED <<opt, clr, notMem>>

\* processQuestion step 6: the assistant's message and the counter
AskAssistant ==
  /\ turn.pc = "assistant"
  /\ messages' = [messages EXCEPT ![turn.chatSessionId] =
                    Append(@, Message("assistant"))]
  /\ turn' = [turn EXCEPT !.pc = "count2"]
  /\ UNCHANGED <<session, opt, clr, notMem>>

AskCount2 ==
  /\ turn.pc = "count2"
  /\ session' = [session EXCEPT ![turn.chatSessionId].messageCount = @ + 1]
  /\ turn' = IdleAsk(turn.n)
  /\ UNCHANGED <<messages, opt, clr, notMem>>

OwnNext ==
  \/ AskStart
  \/ AskFind
  \/ AskCreate
  \/ AskContext
  \/ AskUser
  \/ AskCount1
  \/ AskAnswer
  \/ AskOptimize
  \/ AskAssistant
  \/ AskCount2

SpecOwn == OwnInit /\ [][OwnNext]_vars

\* ------------------------------------- concurrent chat turns on one session
\* processQuestion calls that may run at the same time
Askers == {1, 2}
MaxClears == 1

\* mutant: the counter is raised by 2 for one message
incrementMessageCount_Twice(sess) == [sess EXCEPT !.messageCount = @ + 2]

\* prisma.chatSession.update({ data: { messageCount: { increment: 1 } } })
incrementMessageCount(sess) == [sess EXCEPT !.messageCount = @ + 1]

\* an asker between turns: n turns started; completed and failed count its
\* turns since the last clear
IdlePar(n, completed, failed) ==
  [pc |-> "idle", n |-> n, completed |-> completed, failed |-> failed]

\* k completed turns so far; clr remembers how many messages the session held
\* at its last clear (base) and how many turns were completed before the
\* askers began (prior)
ParInit ==
  /\ now = 0
  /\ dirs = <<>>
  /\ req = <<>>
  /\ files = {}
  /\ ClientOff
  /\ DocsOff
  /\ HouseOff
  /\ \E k \in PriorTurns :
       /\ messages = [i \in 1..(2 * k) |->
                        Message(IF i % 2 = 1 THEN "user" ELSE "assistant")]
       /\ session = [FreshSession EXCEPT !.messageCount = 2 * k]
       /\ clr = [pc |-> "idle", n |-> 0, base |-> 0, prior |-> k]
  /\ opt = [p \in OptCallers |-> IdleOpt]
  /\ turn = [p \in Askers |-> IdlePar(0, 0, 0)]

\* processQuestion: the session is found; no clear or compaction request is
\* running
ParStart(p) ==
  /\ turn[p].pc = "idle"
  /\ turn[p].n < MaxTurns
  /\ clr.pc = "idle"
  /\ opt["api"].pc = "idle"
  /\ turn' = [turn EXCEPT ![p].pc = "user", ![p].n = @ + 1]
  /\ UNCHANGED <<session, messages, opt, clr, notMem>>

\* processQuestion: store the user's message
ParUser(p) ==
  /\ turn[p].pc = "user"
  /\ messages' = Append(messages, Message("user"))
  /\ turn' = [turn EXCEPT ![p].pc = "count1"]
  /\ UNCHANGED <<session, opt, clr, notMem>>

\* processQuestion: messageCount increment after the user's message
ParCount1(p) ==
  /\ turn[p].pc = "count1"
  /\ session' = incrementMessageCount(session)
  /\ turn' = [turn EXCEPT ![p].pc = "answer"]
  /\ UNCHANGED <<messages, opt, clr, notMem>>

\* processQuestion: retrieval, generation and the compaction it may call (the
\* Optimize steps); any of them may throw and end the turn
ParAnswer(p) ==
  /\ turn[p].pc = "answer"
  /\ \E ok \in BOOLEAN :
       turn' = [turn EXCEPT ![p] =
                  IF ok THEN [@ EXCEPT !.pc = "assistant"]
                  ELSE IdlePar(@.n, @.completed, @.failed + 1)]
  /\ UNCHANGED <<session, messages, opt, clr, notMem>>

\* processQuestion: store the assistant's message
ParAssistant(p) ==
  /\ turn[p].pc = "assistant"
  /\ messages' = Append(messages, Message("assistant"))
  /\ turn' = [turn EXCEPT ![p].pc = "count2"]
  /\ UNCHANGED <<session, opt, clr, notMem>>

\* processQuestion: messageCount increment after the assistant's message
ParCount2(p) ==
  /\ turn[p].pc = "count2"
  /\ session' = incrementMessageCount(session)
  /\ turn' = [turn EXCEPT ![p] = IdlePar(@.n, @.completed + 1, @.failed)]
  /\ UNCHANGED <<messages, opt, clr, notMem>>

\* no chat turn and no clear is running
ParQuiet ==
  /\ \A p \in Askers : turn[p].pc = "idle"
  /\ clr.pc = "idle"

\* clearConversationMemory between turns: the ownership check passed
ParClearStart ==
  /\ ParQuiet
  /\ opt["api"].pc = "idle"
  /\ clr.n < MaxClears
  /\ clr' = [clr EXCEPT !.pc = "session", !.n = @ + 1]
  /\ UNCHANGED <<session, messages, opt, turn, notMem>>

\* clearConversationMemory: prisma.chatSession.update
ParClearSession ==
  /\ clr.pc = "session"
  /\ session' = ClearedSession
  /\ clr' = [clr EXCEPT !.pc = "messages", !.base = Len(messages), !.prior = 0]
  /\ turn' = [p \in Askers |-> IdlePar(turn[p].n, 0, 0)]
  /\ UNCHANGED <<messages, opt, notMem>>

\* clearConversationMemory: prisma.chatMessage.updateMany
ParClearMessages ==
  /\ clr.pc = "messages"
  /\ messages' = [i \in DOMAIN messages |->
                    [messages[i] EXCEPT !.isSummarized = FALSE]]
  /\ clr' = [clr EXCEPT !.pc = "idle"]
  /\ UNCHANGED <<session, opt, turn, notMem>>

ParNext ==
  \/ \E p \in Askers : ParStart(p)
  \/ \E p \in Askers : ParUser(p)
  \/ \E p \in Askers : ParCount1(p)
  \/ \E p \in Askers : ParAnswer(p)
  \/ \E p \in Askers : ParAssistant(p)
  \/ \E p \in Askers : ParCount2(p)
  \/ ParClearStart
  \/ ParClearSession
  \/ ParClearMessages
  \/ ParQuiet /\ SummarizeStart
  \/ OptimizeRead("api")
  \/ OptimizeSummary("api")
  \/ OptimizeSession("api")
  \/ OptimizeMessages("api")
  \/ SummarizeReturn

SpecPar == ParInit /\ [][ParNext]_vars

\* ------------------------------------------------------- progress requests
\* part counts a client declares: small uploads and one of many parts
ProgressTotals == {1, 2, 3, 250}
ProgressRequests == {1}

\* the directory of an upload of d1 with the given part count and parts
ProgressDir(totalChunks, stored) ==
  LET metadata == [fileName |-> TheFile, chunkIndex |-> 0,
                   totalChunks |-> totalChunks, deviceId |-> "d1"]
  IN [d \in {generateChunkDirName(TheFile, "d1", 0)} |->
        [metadata |-> metadata, chunks |-> [i \in stored |-> FileContent[1]]]]

\* an upload with any declared part count of which the first parts, or all
\* but the first, are stored
ProgressInit ==
  /\ ClientOff
  /\ MemOff
  /\ DocsOff
  /\ HouseOff
  /\ now = 0
  /\ files = {}
  /\ req = [r \in ProgressRequests |-> IdleReq]
  /\ \E totalChunks \in ProgressTotals :
       \E stored \in {0..(up - 1) : up \in 0..totalChunks} \cup {1..(totalChunks - 1)} :
         dirs = ProgressDir(totalChunks, stored)

\* getChunkProgress: the request arrives with its chunkDirName and device
ProgressStart(r) ==
  /\ req[r].pc = "idle"
  /\ \E d \in DOMAIN dirs, deviceId \in Devices :
       req' = [req EXCEPT ![r] =
                 [IdleReq EXCEPT !.pc = "progress", !.dir = d,
                                 !.meta = [NoMeta EXCEPT !.deviceId = deviceId]]]
  /\ UNCHANGED <<now, dirs, files, notUpload>>

\* getChunkProgress: 403 for another device, rethrown as 500 by the catch;
\* else getUploadProgress and areAllChunksUploaded, then res.status(200)
ProgressReturn(r) ==
  /\ req[r].pc = "progress"
  /\ LET d == req[r].dir
     IN req' = [req EXCEPT ![r] =
          IF d \notin DOMAIN dirs \/ dirs[d].metadata.deviceId # req[r].meta.deviceId
          THEN [IdleReq EXCEPT !.pc = "done", !.status = 500]
          ELSE [IdleReq EXCEPT !.pc = "done", !.status = 200, !.dir = d,
                               !.fields = {"progress", "completed", "metadata"},
                               !.progress = getUploadProgress(dirs, d),
                               !.completed = areAllChunksUploaded(dirs, d)]]
  /\ UNCHANGED <<now, dirs, files, notUpload>>

ProgressNext ==
  \/ \E r \in ProgressRequests : ProgressStart(r)
  \/ \E r \in ProgressRequests : ProgressReturn(r)

SpecProgress == ProgressInit /\ [][ProgressNext]_vars

\* ------------------------------------------------------------------ claims
SameUpload(d1, d2) == d1[1] = d2[1] /\ d1[2] = d2[2]
Handlers == DOMAIN req

\* C1: all StorePart calls of one logical upload (same sanitized file name, same
\* owner) store into the same session directory and return the same session id,
\* whatever the time of each call.
C1_OneSessionPerUpload ==
  \A r1, r2 \in Handlers :
    (req[r1].dir # NoDir /\ req[r2].dir # NoDir /\ SameUpload(req[r1].dir, req[r2].dir))
      => req[r1].dir = req[r2].dir

\* C2: merge and ingestion are started at most once per session: no two handlers
\* are past a successful completeness check of the same session directory.
C2_MergeAtMostOnce ==
  \A r1, r2 \in Handlers :
    (r1 # r2 /\ req[r1].pc \in MergePhase /\ req[r2].pc \in MergePhase)
      => req[r1].dir # req[r2].dir

\* every index of [0, totalChunks) has a stored part in session d
AllPartsStored(ds, d) ==
  /\ d \in DOMAIN ds
  /\ \A i \in 0..(ds[d].metadata.totalChunks - 1) : i \in DOMAIN ds[d].chunks

\* C6: whatever the arrival order of the parts of a file, a finished merge has
\* written the parts in index order: the destination equals the original file.
C6_MergeRebuildsFile ==
  \A r \in Handlers : req[r].pc = "process" => req[r].out = FileContent

\* C6 witness: a merge finished although part 0 arrived last
C6_Witness ==
  \E r \in Handlers :
    req[r].pc = "process" /\ req[r].meta.chunkIndex = 0 /\ Len(req[r].out) = FileParts

\* C7: the completeness check answers true exactly when every index of
\* [0, totalParts) has a stored part, and the check changes no stored state.
C7_IsCompleteExact ==
  [][\A r \in Handlers :
       (req[r].pc = "stored" /\ req'[r].pc # "stored")
         => /\ dirs' = dirs
            /\ (req'[r].pc = "mergeStart") <=> AllPartsStored(dirs, req[r].dir)
            /\ (req'[r].pc = "progress") <=> ~AllPartsStored(dirs, req[r].dir)]_vars

\* C7 witness: parts arrived in reverse order and the check turned true with part 0
C7_Witness ==
  \E r \in Handlers :
    /\ req[r].pc = "mergeStart"
    /\ req[r].meta.chunkIndex = 0
    /\ req[r].meta.totalChunks >= 2
    /\ AllPartsStored(dirs, req[r].dir)

\* C9: a part that does not complete the upload is answered completed=false with
\* the progress, the completing part is answered completed=true with the file id,
\* and a client whose file was ingested ends in its success state, having called
\* onSuccess once and cancelled nothing.
C9_ClientSeesCompletion ==
  /\ (req[1].pc = "done" /\ req[1].status = 200)
       => ({"completed", "progress"} \subseteq req[1].fields /\ ~req[1].completed)
  /\ (req[1].pc = "done" /\ req[1].status = 201)
       => ({"completed", "fileId"} \subseteq req[1].fields /\ req[1].completed)
  /\ (client.pc \in ClientFinal /\ \E f \in files : f.ok)
       => (client.success /\ client.onSuccess = 1 /\ client.cancels = 0)

\* C8: however often an index of one upload is stored, the upload holds one part
\* at that index (the later write), which is the one a merge reads.
C8_OnePartPerIndex ==
  \A d1, d2 \in DOMAIN dirs :
    (SameUpload(d1, d2) /\ (DOMAIN dirs[d1].chunks) \cap (DOMAIN dirs[d2].chunks) # {})
      => d1 = d2

\* C3: while an optimizeMemory call is in flight next to the other memory
\* operations of the session, the session is never marked summarized with a
\* missing or empty summary, and no message is flagged summarized while the
\* session itself reports not summarized.
C3_SummaryStateConsistent ==
  (\E p \in DOMAIN opt : opt[p].pc \notin {"idle", "done"}) =>
    /\ session.isSummarized => session.conversationSummary \notin {Null, ""}
    /\ ~session.isSummarized => \A i \in DOMAIN messages : ~messages[i].isSummarized

\* C10: when optimizeMemory succeeds its summary is non-empty and the messages
\* it newly flags as summarized are exactly the unsummarized messages that
\* were in the summarization input, also when a message was appended while
\* the summarization call was in flight.
C10_FlagsExactlyTheInput ==
  [][\A p \in DOMAIN opt :
       (opt[p].pc = "messages" /\ opt'[p].pc = "done" /\ opt'[p].optimized)
         => /\ opt[p].summary # ""
            /\ {i \in DOMAIN messages :
                  ~messages[i].isSummarized /\ messages'[i].isSummarized}
               = opt[p].history]_vars

\* C4: when the ingestion of a document has failed, neither its file row nor
\* any of its chunk rows is persisted.
C4_FailedIngestLeavesNothing ==
  ingest.pc = "failed" =>
    /\ \A f \in files : f.id # NewFileId
    /\ \A c \in chunkRows : c.fileId # NewFileId

\* C5: every chunk a chat turn retrieves belongs to a file that is in the
\* caller's fileIds and is owned by the caller's device.
C5_RetrievalScoped ==
  query.pc = "done" =>
    \A k \in DOMAIN query.result :
      /\ query.result[k].fileId \in query.fileIds
      /\ \E f \in files : f.id = query.result[k].fileId /\ f.deviceId = query.deviceId

\* C11: in every reachable state of a session, whatever appends, optimizeMemory
\* and clearConversationMemory calls have run or are running, a session marked
\* summarized has a summary that is neither null nor empty.
C11_SummarizedHasSummary ==
  session.isSummarized => session.conversationSummary \notin {Null, ""}

C11_Witness ==
  /\ session.isSummarized
  /\ session.conversationSummary = SummaryText
  /\ Len(messages) > maxMessagesBeforeSummary
  /\ clr = "session"

\* C12: an optimizeMemory call that does not succeed (no summary produced, or
\* a write rejected part-way) leaves the session row and every message row as
\* they were when it was invoked.
C12_FailedOptimizeChangesNothing ==
  \A p \in DOMAIN opt :
    (opt[p].pc = "done" /\ ~opt[p].optimized) =>
      /\ session = opt[p].seen.session
      /\ messages = opt[p].seen.messages

\* C13: a session becomes summarized only through the session write of an
\* optimizeMemory call, and only of one that succeeds; it becomes live again
\* only through the session write of clearConversationMemory; optimizeMemory
\* reading a summarized session writes nothing and reports no optimization.
C13_LiveSummarizedTransitions ==
  [][/\ (~session.isSummarized /\ session'.isSummarized) =>
          \E p \in DOMAIN opt : opt[p].pc = "session" /\ opt'[p].pc = "messages"
     /\ (session.isSummarized /\ ~session'.isSummarized) =>
          (clr = "session" /\ clr' = "messages")
     /\ \A p \in DOMAIN opt :
          /\ (opt[p].pc = "read" /\ opt'[p].pc # "read" /\ session.isSummarized) =>
               /\ opt'[p].pc = "done" /\ ~opt'[p].optimized
               /\ session' = session /\ messages' = messages
          /\ (opt[p].pc # "done" /\ opt'[p].pc = "done" /\ ~opt'[p].optimized
                /\ ~opt'[p].seen.session.isSummarized) =>
               ~session'.isSummarized]_vars

\* C14: what shouldSummarize returns for a session is true exactly when
\* messageCount is at least the threshold (15) and the session is not
\* summarized; it is false for a session with messageCount = 0.
C14_ShouldSummarizeIff ==
  turn.pc = "ctxRecent" =>
    /\ turn.shouldSummarize <=>
         (session.messageCount >= maxMessagesBeforeSummary /\ ~session.isSummarized)
    /\ session.messageCount = 0 => ~turn.shouldSummarize

C14_Witness ==
  /\ turn.pc = "ctxRecent"
  /\ session.messageCount = maxMessagesBeforeSummary
  /\ ~session.isSummarized
  /\ turn.shouldSummarize

Range(f) == {f[x] : x \in DOMAIN f}

\* h holds, oldest first, the newest n of the unsummarized messages
NewestOf(h, n) ==
  LET U == Unsummarized(messages)
  IN /\ Range(h) \subseteq U
     /\ \A a, b \in DOMAIN h : a < b => h[a] < h[b]
     /\ Len(h) = IF Cardinality(U) < n THEN Cardinality(U) ELSE n
     /\ \A i \in U \ Range(h) : \A x \in Range(h) : i < x

\* C15: getOptimizedContext returns, oldest first: for a summarized session the
\* summary and the newest 8 unsummarized messages; for a live session at or
\* over the threshold the newest 8 messages with shouldSummarize set; for a
\* live session under the threshold the newest 20 messages with shouldSummarize
\* unset; never more than 20 messages.
C15_OptimizedContext ==
  turn.pc = "user" =>
    /\ Len(turn.history) <= maxHistoryLength
    /\ session.isSummarized =>
         /\ turn.summary = session.conversationSummary
         /\ NewestOf(turn.history, recentMessagesForContext)
    /\ (~session.isSummarized /\ session.messageCount >= maxMessagesBeforeSummary) =>
         /\ turn.shouldSummarize
         /\ NewestOf(turn.history, recentMessagesForContext)
    /\ (~session.isSummarized /\ session.messageCount < maxMessagesBeforeSummary) =>
         /\ ~turn.shouldSummarize
         /\ turn.summary = Null
         /\ NewestOf(turn.history, maxHistoryLength)

C15_Witness ==
  /\ turn.pc = "user"
  /\ ~session.isSummarized
  /\ session.messageCount >= maxMessagesBeforeSummary
  /\ Cardinality(Unsummarized(messages)) > recentMessagesForContext
  /\ Len(turn.history) = recentMessagesForContext
  /\ turn.history[1] > 1

\* C16: when clearConversationMemory completes, the session row has no summary
\* and no summary date, is not summarized and has messageCount 0, no message is
\* flagged summarized, no message is deleted or altered otherwise, and
\* shouldSummarize and getMemoryStats answer as on a freshly created session.
C16_ClearResetsMemory ==
  [][(clr = "messages" /\ clr' = "idle") =>
       /\ session'.conversationSummary = Null
       /\ session'.lastSummarizedAt = Null
       /\ ~session'.isSummarized
       /\ session'.messageCount = 0
       /\ Len(messages') = Len(messages)
       /\ \A i \in DOMAIN messages :
            /\ ~messages'[i].isSummarized
            /\ messages'[i].role = messages[i].role
       /\ shouldSummarize(session') = shouldSummarize(FreshSession)
       /\ getMemoryStats(session') = getMemoryStats(FreshSession)]_vars

\* the session write of a clear has landed on a summarized session whose
\* messages are still flagged
C16_Witness ==
  /\ clr = "messages"
  /\ session = FreshSession
  /\ Len(messages) >= maxMessagesBeforeSummary
  /\ \A i \in DOMAIN messages : messages[i].isSummarized

\* C17: for every declared file size s > 0 (of a supported type)
\* initializeChunkedUpload answers 200 with a positive chunkSize and
\* totalChunks = ceil(s / chunkSize); the answer depends only on s; and no
\* smaller file gets a larger chunkSize.
C17_InitializeSizes ==
  (initUp.pc = "done" /\ initUp.fileSize > 0 /\ initUp.mimeType \in allowedTypes) =>
    /\ initUp.status = 200
    /\ initUp.chunkSize > 0
    /\ initUp.totalChunks > 0
    /\ (initUp.totalChunks - 1) * initUp.chunkSize < initUp.fileSize
    /\ initUp.fileSize <= initUp.totalChunks * initUp.chunkSize
    /\ \A mimeType \in allowedTypes :
         initializeChunkedUpload(initUp.fileSize, mimeType).chunkSize = initUp.chunkSize
    /\ \A s \in FileSizes :
         (0 < s /\ s <= initUp.fileSize) =>
           initializeChunkedUpload(s, initUp.mimeType).chunkSize <= initUp.chunkSize

C17_Witness ==
  /\ initUp.pc = "done"
  /\ initUp.fileSize = 100 * MB + 1
  /\ initUp.status = 200
  /\ initUp.chunkSize = 10 * MB
  /\ initUp.totalChunks = 11

\* C18: a request rejected for invalid input (a declared size <= 0 or an
\* unsupported media type) is answered with a client error (4xx), never with
\* a server error, and stores nothing.
C18_InvalidInputIsClientError ==
  (initUp.pc = "done" /\ (initUp.fileSize <= 0 \/ initUp.mimeType \notin allowedTypes)) =>
    /\ initUp.status >= 400 /\ initUp.status < 500
    /\ dirs = <<>>

\* C19: a cancel by the owner of the session removes the session directory
\* and answers 200, also when the directory is already gone (a second cancel,
\* or a cancel after the merge or after a sweep of the reaper).
C19_CancelIdempotent ==
  (cancelRes.pc = "done" /\ cancelRes.deviceId = cancelRes.dir[2]) =>
    cancelRes.status = 200

\* the session directories the handlers can create
SweepDirs ==
  {generateChunkDirName(TheFile, "d1", k * sweepInterval) : k \in 0..MaxAdvances}

\* C20: every session directory whose last-modified time is more than 24
\* hours back is eventually removed, whether or not its upload completed.
C20_StaleSessionsReaped ==
  \A d \in SweepDirs :
    (d \in DOMAIN dirs /\ now - d[3] > 24 * 60 * 60 * 1000) ~> (d \notin DOMAIN dirs)

\* a sweep has removed the directory of an upload that got one part of two
\* thirty hours ago and was never cancelled
C20_Witness ==
  LET d == generateChunkDirName(TheFile, "d1", 0)
  IN /\ reaper.pc = "loop"
     /\ reaper.t = 5 * sweepInterval
     /\ d \notin DOMAIN dirs
     /\ d \notin reaper.names
     /\ cancelRes = IdleCancel
     /\ req[1].pc = "done" /\ req[1].status = 200 /\ req[1].dir = d

\* C21: the reaper never removes the directory or a part of a session while
\* its merge is in progress: a handler that found the upload complete and is
\* in mergeChunks still has the directory and every part of [0, totalChunks).
C21_ReaperSparesMerging ==
  \A r \in DOMAIN req :
    req[r].pc \in {"mergeStart", "merge"} =>
      /\ req[r].dir \in DOMAIN dirs
      /\ \A i \in 0..(req[r].meta.totalChunks - 1) :
           i \in DOMAIN dirs[req[r].dir].chunks

\* C21 witness: a sweep that listed the directory is in its loop, hours after
\* the part was stored, while the merge of that directory is reading
C21_Witness ==
  \E r \in DOMAIN req :
    /\ req[r].pc = "merge"
    /\ reaper.pc = "loop"
    /\ req[r].dir \in reaper.names
    /\ now > mtime(req[r].dir)

\* C22: a failure after the last part arrived (merge, blob upload, text
\* extraction, embedding) leaves the pre-operation state: the failing step
\* persists no file row, and the handler that ends in failure leaves the
\* session's directory with its parts and metadata as they were.
C22_FailureKeepsPartsAndNoDocument ==
  [][\A r \in DOMAIN req :
       /\ (req[r].pc = "process" /\ req'[r].pc = "fail") => files' = files
       /\ (req[r].pc = "fail" /\ req'[r].pc = "done" /\ req[r].dir \in DOMAIN dirs) =>
            /\ req[r].dir \in DOMAIN dirs'
            /\ dirs'[req[r].dir] = dirs[req[r].dir]]_vars

\* C23: the declared attributes of an upload session (file name, part count,
\* owner) never change once its first part created it: a later part changes
\* only the set of stored parts, so the part count that areAllChunksUploaded
\* and mergeChunks read is the one declared at creation.
C23_SessionAttributesFixed ==
  [][\A d \in (DOMAIN dirs) \cap (DOMAIN dirs') :
       /\ dirs'[d].metadata.fileName = dirs[d].metadata.fileName
       /\ dirs'[d].metadata.totalChunks = dirs[d].metadata.totalChunks
       /\ dirs'[d].metadata.deviceId = dirs[d].metadata.deviceId]_vars

\* C24: mergeChunks on a session in which an index of [0, totalChunks) has no
\* stored part fails and produces no destination: when its loop ends on such
\* a session, it ends in failure and nothing was written to the final path.
C24_IncompleteMergeNoDestination ==
  [][\A r \in DOMAIN req :
       (/\ req[r].pc = "merge"
        /\ req'[r].pc # "merge"
        /\ req[r].dir \in DOMAIN dirs
        /\ \E i \in 0..(req[r].total - 1) : i \notin DOMAIN dirs[req[r].dir].chunks)
       => (req'[r].pc = "fail" /\ req'[r].out = <<>>)]_vars

\* C25: findSimilarChunks returns at most k chunks, all of them different rows
\* of the candidate set (the rows of the given files), in order of
\* non-increasing similarity to the question, and no candidate that was left
\* out has a strictly higher similarity than a returned one.
C25_FindSimilarTopK ==
  query.pc = "returned" =>
    LET result == query.result
        candidates == {c \in chunkRows : c.fileId \in query.fileIds}
        sim(c) == calculateCosineSimilarity(query.question, c.embedding)
        returned == {result[j] : j \in DOMAIN result}
    IN  /\ Len(result) <= query.k
        /\ returned \subseteq candidates
        /\ Cardinality(returned) = Len(result)
        /\ \A j \in DOMAIN result : \A l \in DOMAIN result :
             j < l => ~SimLess(sim(result[j]), sim(result[l]))
        /\ \A c \in candidates \ returned : \A j \in DOMAIN result :
             ~SimLess(sim(result[j]), sim(c))

\* C25 witness: a call returned k chunks of different similarities and left
\* out candidates, one of them as similar as the last chunk returned
C25_Witness ==
  /\ query.pc = "returned"
  /\ query.k = MaxK
  /\ Len(query.result) = MaxK
  /\ SimLess(calculateCosineSimilarity(query.question, query.result[MaxK].embedding),
             calculateCosineSimilarity(query.question, query.result[1].embedding))
  /\ \E c \in chunkRows :
       /\ c.fileId \in query.fileIds
       /\ \A j \in DOMAIN query.result : query.result[j] # c
       /\ calculateCosineSimilarity(query.question, c.embedding)
            = calculateCosineSimilarity(query.question, query.result[MaxK].embedding)
  /\ \E c \in chunkRows :
       /\ c.fileId \in query.fileIds
       /\ SimLess(calculateCosineSimilarity(query.question, c.embedding),
                  calculateCosineSimilarity(query.question, query.result[MaxK].embedding))

\* C26: a chat turn is all-or-nothing: when processQuestion fails at
\* retrieval, answer generation or compaction, the session is as before the
\* turn, so its newest message is not a user message without its assistant
\* reply.
C26_FailedTurnLeavesNoMessage ==
  [][(turn.pc \in {"answer", "optimize"} /\ turn'.pc = "idle") =>
       (Len(messages') = 0 \/ messages'[Len(messages')].role # "user")]_vars

\* every message is flagged summarized or among the messages that
\* getOptimizedContext returns for a summarized session
InSummaryOrContext(msgs) ==
  \A i \in DOMAIN msgs :
    \/ msgs[i].isSummarized
    \/ i \in Range(getRecentMessages(msgs, recentMessagesForContext))

\* C27: chat turns on a summarized session keep every message either flagged
\* summarized or among the messages getOptimizedContext returns: no message
\* stored after the compaction drops out of both the summary and the context
\* window.
C27_NoMessageDropsOut ==
  [][(/\ turn.pc \in {"user", "assistant"}
      /\ session.isSummarized
      /\ session.conversationSummary \notin {Null, ""}
      /\ InSummaryOrContext(messages))
     => InSummaryOrContext(messages')]_vars

\* C28: a chat turn submitted with the id of a session of another owner never
\* reads or changes that session: no step of the turn changes a session (row
\* or messages) that is not the caller's, the session the turn works on is the
\* caller's, and it is a new session, not the one named in the request.
C28_ForeignSessionUntouched ==
  [][turn.pc # "idle" =>
       /\ \A s \in DOMAIN session :
            session[s].deviceId # turn.deviceId =>
              (session'[s] = session[s] /\ messages'[s] = messages[s])
       /\ turn.chatSessionId # NoSession =>
            session[turn.chatSessionId].deviceId = turn.deviceId
       /\ (/\ turn.existingSessionId \in DOMAIN session
           /\ session[turn.existingSessionId].deviceId # turn.deviceId
           /\ turn.pc = "create")
          => (/\ turn'.chatSessionId \notin DOMAIN session
              /\ session'[turn'.chatSessionId].deviceId = turn.deviceId)]_vars

\* C28 witness: device d2 asked with the id of d1's session and its turn has
\* stored both messages in a session of its own
C28_Witness ==
  /\ turn.pc = "count2"
  /\ turn.deviceId = "d2"
  /\ turn.existingSessionId = StoredSessionId
  /\ session[StoredSessionId].deviceId = "d1"
  /\ turn.chatSessionId # StoredSessionId
  /\ Len(messages[turn.chatSessionId]) = 2

RECURSIVE TurnsOf(_, _)
\* the askers' turns of one kind ("completed" or "failed") added up
TurnsOf(S, kind) ==
  IF S = {} THEN 0
  ELSE LET x == CHOOSE y \in S : TRUE
       IN turn[x][kind] + TurnsOf(S \ {x}, kind)

\* C29: after completed chat turns (also overlapping ones), compactions and
\* clears, messageCount is the number of messages stored since the session
\* was created or last cleared, and it is 2 for every completed turn (and 1
\* for the user message of every failed one).
C29_CountMatchesMessages ==
  ParQuiet =>
    /\ session.messageCount = Len(messages) - clr.base
    /\ session.messageCount =
         2 * (clr.prior + TurnsOf(Askers, "completed")) + TurnsOf(Askers, "failed")

\* C29 witness: after a clear of a session that held messages, both askers
\* have completed a turn and one has failed a second turn
C29_Witness ==
  /\ \A p \in Askers : turn[p].pc = "idle" /\ turn[p].completed >= 1
  /\ \E p \in Askers : turn[p].failed = 1
  /\ clr.pc = "idle"
  /\ clr.n = 1
  /\ clr.base > 0
  /\ session.messageCount = 5

\* C30: for an upload with total > 0 declared parts the progress report has
\* 0 <= uploaded <= total and a percentage in [0, 100], and the percentage is
\* 100 exactly when the upload is complete (uploaded = total).
C30_ProgressExact ==
  \A r \in DOMAIN req :
    (req[r].pc = "done" /\ req[r].status = 200 /\ req[r].progress.total > 0) =>
      LET progress == req[r].progress
      IN /\ 0 <= progress.uploaded /\ progress.uploaded <= progress.total
         /\ 0 <= progress.percentage /\ progress.percentage <= 100
         /\ progress.percentage = 100 <=> progress.uploaded = progress.total
         /\ req[r].completed <=> progress.uploaded = progress.total

=============================================================================
